---- MODULE Spec2Model ----
(***************************************************************************)
(* The two FAT32 image builders of NumOS:                                  *)
(*   tools/build_disk.py        class Fat32DiskBuilder and its main()      *)
(*   tools/create_disk_fixed.py the streaming writer main()                *)
(*                                                                         *)
(* The image is modelled byte by byte (a sequence of 0..255), with the     *)
(* record sizes of the source (32-byte directory entries, 4-byte FAT       *)
(* entries) and a scaled-down geometry: a sector holds SlotsPerSector      *)
(* directory entries (source: 16, i.e. 512 bytes), a cluster holds         *)
(* sectors_per_cluster sectors (source: 8), and the reserved area, one FAT *)
(* and one "MiB" are whole numbers of clusters as they are in the source   *)
(* (32 sectors = 4 clusters, 256 / 160 sectors = 32 / 20 clusters,         *)
(* 1 MiB = 256 clusters, here one).  Offsets are 0-based as in the code;   *)
(* sequences are 1-based.                                                  *)
(***************************************************************************)
EXTENDS Integers, Sequences, FiniteSets, TLC

\* ---------------------------------------------------------------- scale
DirEntrySize == 32
FatEntrySize == 4
SlotsPerSector == 3
sectors_per_cluster == 2
ReservedClusters == 4
FatClustersBD == 2
FatClustersCF == 1
DiskSizeMiB == 14
MaxExtra == 3
MaxSizeMb == 110
ConfigLen == 40
ReadmeLen == 100

\* ------------------------------------------------- program constants
fat_count == 2
root_cluster == 2
BackupBootSector == 6
EOC == 268435455
MediaEntry == 268435448
DeletedMarker == 229

\* --------------------------------------------------------- geometry
sector_size == SlotsPerSector * DirEntrySize
reserved_sectors == ReservedClusters * sectors_per_cluster
sectors_per_fat == FatClustersBD * sectors_per_cluster
bytes_per_cluster == sector_size * sectors_per_cluster
\* size_mb counts units of one cluster (source: 1024 * 1024 bytes, 256 clusters)
MiB == bytes_per_cluster
size_bytes(mb) == mb * MiB
total_sectors(mb) == size_bytes(mb) \div sector_size
fat_start_sector == reserved_sectors
data_start_sector == fat_start_sector + (fat_count * sectors_per_fat)
FatTableLen == (sectors_per_fat * sector_size) \div FatEntrySize

\* a slip: the data area's first sector is left out
cluster_to_sector_no_base(cluster) == (cluster - 2) * sectors_per_cluster

cluster_to_sector(cluster) == data_start_sector + (cluster - 2) * sectors_per_cluster

\* create_disk_fixed.py has its own module constants
BYTES_PER_SECTOR == sector_size
SECTORS_PER_CLUSTER == sectors_per_cluster
RESERVED_SECTORS == reserved_sectors
NUM_FATS == fat_count
BYTES_PER_CLUSTER == SECTORS_PER_CLUSTER * BYTES_PER_SECTOR
fat_size == FatClustersCF * sectors_per_cluster
CF_total_sectors == (DiskSizeMiB * MiB) \div BYTES_PER_SECTOR
CF_data_start_sector == RESERVED_SECTORS + (NUM_FATS * fat_size)

\* ------------------------------------------------------ byte helpers
Min(a, b) == IF a < b THEN a ELSE b
Max(a, b) == IF a < b THEN b ELSE a
CeilDiv(a, b) == (a + b - 1) \div b

Zeros(n) == [i \in 1..n |-> 0]

RECURSIVE Pow256(_)
Pow256(n) == IF n = 0 THEN 1 ELSE 256 * Pow256(n - 1)

\* struct.pack("<H" / "<L" / "<I", v): n bytes, least significant first
Pack(v, n) == [i \in 1..n |-> (v \div Pow256(i - 1)) % 256]

\* struct.unpack of n little-endian bytes
RECURSIVE Unpack(_)
Unpack(bs) == IF bs = << >> THEN 0 ELSE Head(bs) + 256 * Unpack(Tail(bs))

\* Python buf[a:b] (0 <= a), clipped to the buffer
Slice(buf, a, b) == SubSeq(buf, Min(a, Len(buf)) + 1, Min(b, Len(buf)))

\* Python buf[a:b] = data on a bytearray: the clipped slice is replaced, so
\* a slice that reaches past the end makes the buffer longer
SliceAssign(buf, a, b, data) ==
    LET lo == Min(a, Len(buf))
        hi == Min(Max(a, b), Len(buf))
    IN  SubSeq(buf, 1, lo) \o data \o SubSeq(buf, hi + 1, Len(buf))

\* struct.pack_into(fmt, buf, off, v) and buf[off:off+n] = <n bytes>,
\* inside the buffer
PackInto(buf, off, bs) == SliceAssign(buf, off, off + Len(bs), bs)

\* s.ljust(n) with spaces
LJust(s, n) == IF Len(s) >= n THEN s ELSE s \o [i \in 1..(n - Len(s)) |-> 32]

\* ------------------------------------------------------------- names
\* File names are sequences of ASCII codes.
Dot == 46
Slash == 47
Space == 32
N_empty_txt == <<101,109,112,116,121,46,116,120,116>>
N_d_longname1_txt == <<100,47,108,111,110,103,110,97,109,101,49,46,116,120,116>>
N_LONGNAME2_TXT == <<76,79,78,71,78,65,77,69,50,46,84,88,84>>
N_missing_bin == <<109,105,115,115,105,110,103,46,98,105,110>>
N_huge_img == <<104,117,103,101,46,105,109,103>>
N_vast_img == <<118,97,115,116,46,105,109,103>>
N_KERNEL_BIN == <<75,69,82,78,69,76,46,66,73,78>>
N_CONFIG_TXT == <<67,79,78,70,73,71,46,84,88,84>>
N_README_TXT == <<82,69,65,68,77,69,46,84,88,84>>
L_NumOS_FAT32 == <<78,117,109,79,83,32,70,65,84,51,50>>
L_NumOS_OEM == <<78,117,109,79,83,32,32,32>>
L_FAT32 == <<70,65,84,51,50,32,32,32>>
L_NUMOS10 == <<78,85,77,79,83,49,46,48>>
L_NUMOS_DISK == <<78,85,77,79,83,32,68,73,83,75,32>>
L_DOT == <<46,32,32,32,32,32,32,32,32,32,32>>
L_DOTDOT == <<46,46,32,32,32,32,32,32,32,32,32>>
L_INIT == <<73,78,73,84,32,32,32,32,32,32,32>>
L_BIN == <<66,73,78,32,32,32,32,32,32,32,32>>
L_RUN == <<82,85,78,32,32,32,32,32,32,32,32>>
L_SHELL == <<83,72,69,76,76,32,32,32,32,32,32>>

\* str.upper() on ASCII
Upper(s) == [i \in 1..Len(s) |-> IF s[i] >= 97 /\ s[i] <= 122 THEN s[i] - 32 ELSE s[i]]

\* last index (1-based) of code c in s, 0 when absent: str.rfind + 1
RFind(s, c) ==
    LET hits == {i \in 1..Len(s) : s[i] = c}
    IN  IF hits = {} THEN 0 ELSE CHOOSE i \in hits : \A j \in hits : j <= i

\* os.path.basename
basename(p) == SubSeq(p, RFind(p, Slash) + 1, Len(p))

\* os.path.splitext: <<root, ext>>; the extension starts at the last dot
\* after the last separator, unless only dots precede it
splitext(p) ==
    LET sepIndex == RFind(p, Slash)
        dotIndex == RFind(p, Dot)
    IN  IF dotIndex > sepIndex
             /\ \E k \in (sepIndex + 1)..(dotIndex - 1) : p[k] # Dot
        THEN <<SubSeq(p, 1, dotIndex - 1), SubSeq(p, dotIndex, Len(p))>>
        ELSE <<p, << >> >>

\* add_file_to_directory's 8.3 name: 11 bytes
Format83(filename) ==
    LET sp == splitext(Upper(filename))
        name == LJust(Slice(sp[1], 0, 8), 8)
        ext == IF sp[2] # << >> THEN LJust(Slice(sp[2], 1, 4), 3)
                                ELSE <<Space, Space, Space>>
    IN  name \o ext

\* ----------------------------------------------------------- payloads
\* A payload is [seed, size]; the n bytes of a payload with this seed from
\* the 0-based offset lo on:
PayloadBytes(seed, lo, n) == [j \in 1..n |-> (seed + 7 * (lo + j - 1)) % 256]

\* file_data[a:b]
DataSlice(data, a, b) ==
    PayloadBytes(data.seed, Min(a, data.size),
                 Max(0, Min(b, data.size) - Min(a, data.size)))

\* The local files a command line can name: path, whether it exists, content.
LocalFiles ==
    { [path |-> N_d_longname1_txt, exists |-> TRUE, seed |-> 127,
       size |-> 2 * bytes_per_cluster + 1],
      [path |-> N_empty_txt, exists |-> TRUE, seed |-> 0, size |-> 0],
      [path |-> N_LONGNAME2_TXT, exists |-> TRUE, seed |-> 200,
       size |-> bytes_per_cluster],
      [path |-> N_missing_bin, exists |-> FALSE, seed |-> 0, size |-> 0],
      [path |-> N_huge_img, exists |-> TRUE, seed |-> 3,
       size |-> (total_sectors(DiskSizeMiB) - data_start_sector) * sector_size],
      [path |-> N_vast_img, exists |-> TRUE, seed |-> 9,
       size |-> FatTableLen * bytes_per_cluster] }

config_data == [seed |-> 35, size |-> ConfigLen]
readme_data == [seed |-> 78, size |-> ReadmeLen]

\* datetime.now(): the time of the build (the entries' time stamps)
BuildTime ==
    [year |-> 2024, month |-> 2, day |-> 29, hour |-> 23, minute |-> 59, second |-> 59]

NoError == "none"

\* ------------------------------------- build_disk.py: Fat32DiskBuilder
\* A builder value b is [disk_image, fat_table, next_free_cluster];
\* fat_table[c + 1] is the source's self.fat_table[c].

\* a slip: the counter is left where it was
allocate_cluster_stuck(b) ==
    LET cluster == b.next_free_cluster
    IN  IF cluster >= Len(b.fat_table)
        THEN [b |-> b, raised |-> "IndexError", cluster |-> 0]
        ELSE [b |-> [b EXCEPT !.fat_table[cluster + 1] = EOC],
              raised |-> NoError,
              cluster |-> cluster]

\* allocate_cluster: list assignment past the end raises IndexError before
\* the counter moves
allocate_cluster(b) ==
    LET cluster == b.next_free_cluster
    IN  IF cluster >= Len(b.fat_table)
        THEN [b |-> b, raised |-> "IndexError", cluster |-> 0]
        ELSE [b |-> [b EXCEPT !.fat_table[cluster + 1] = EOC,
                              !.next_free_cluster = cluster + 1],
              raised |-> NoError,
              cluster |-> cluster]

\* a slip: the entry is pointed at its own cluster
LinkNextSelf(b, current_cluster, next_cluster) ==
    [b EXCEPT !.fat_table[current_cluster + 1] = current_cluster]

\* one pass of "for i in range(1, clusters_needed)": allocate, link, advance
LinkNext(b, current_cluster, next_cluster) ==
    [b EXCEPT !.fat_table[current_cluster + 1] = next_cluster]

\* the loop state is [b, current_cluster, raised]; an exception ends the loop
AllocateStep(st) ==
    IF st.raised # NoError THEN st
    ELSE LET a == allocate_cluster(st.b)
         IN  IF a.raised # NoError
             THEN [st EXCEPT !.b = a.b, !.raised = a.raised]
             ELSE [b |-> LinkNext(a.b, st.current_cluster, a.cluster),
                   current_cluster |-> a.cluster,
                   raised |-> NoError]

\* n passes in order (the first half of them, then the rest)
RECURSIVE AllocateRest(_, _)
AllocateRest(st, n) ==
    IF n <= 0 THEN st
    ELSE IF n = 1 THEN AllocateStep(st)
    ELSE LET half == AllocateRest(st, n \div 2)
         IN  IF half.raised # NoError THEN half
             ELSE AllocateRest(half, n - (n \div 2))

\* a slip: ">=" for ">"
NeedsClustersAlways(file_size) == file_size >= 0

\* "if file_size > 0": the chain of a payload
NeedsClusters(file_size) == file_size > 0

AllocateChain(b, file_size, clusters_needed) ==
    IF NeedsClusters(file_size)
    THEN LET a == allocate_cluster(b)
         IN  IF a.raised # NoError
             THEN [b |-> a.b, raised |-> a.raised, first_cluster |-> 0]
             ELSE LET r == AllocateRest([b |-> a.b, current_cluster |-> a.cluster,
                                         raised |-> NoError],
                                        clusters_needed - 1)
                  IN  [b |-> r.b, raised |-> r.raised, first_cluster |-> a.cluster]
    ELSE [b |-> b, raised |-> NoError, first_cluster |-> 0]

\* a slip: every chunk is cut from the start of the payload
PaddedChunkFromStart(file_data, i) ==
    LET chunk_data == DataSlice(file_data, 0, Min(bytes_per_cluster, file_data.size))
    IN  chunk_data \o Zeros(bytes_per_cluster - Len(chunk_data))

\* chunk i of the payload, padded to the cluster size
PaddedChunk(file_data, i) ==
    LET chunk_start == i * bytes_per_cluster
        chunk_end == Min((i + 1) * bytes_per_cluster, file_data.size)
        chunk_data == DataSlice(file_data, chunk_start, chunk_end)
    IN  chunk_data \o Zeros(bytes_per_cluster - Len(chunk_data))

\* where chunk i goes: cluster first_cluster + i
ChunkOffset(first_cluster, i) ==
    cluster_to_sector(first_cluster + i) * sector_size

RECURSIVE WriteClusters(_, _, _, _, _)
WriteClusters(image, file_data, first_cluster, i, clusters_needed) ==
    IF i >= clusters_needed
    THEN image
    ELSE LET start_offset == ChunkOffset(first_cluster, i)
         IN  WriteClusters(
                 SliceAssign(image, start_offset, start_offset + bytes_per_cluster,
                             PaddedChunk(file_data, i)),
                 file_data, first_cluster, i + 1, clusters_needed)

\* the 32-byte entry of a file (attribute 0x20)
FileEntry(fat_filename, first_cluster, file_size, t) ==
    LET time_val == (t.hour * 2048) + (t.minute * 32) + (t.second \div 2)
        date_val == ((t.year - 1980) * 512) + (t.month * 32) + t.day
        e0 == PackInto(Zeros(DirEntrySize), 0, fat_filename)
        e1 == PackInto(e0, 11, <<32>>)
        e2 == PackInto(e1, 14, Pack(time_val, 2))
        e3 == PackInto(e2, 16, Pack(date_val, 2))
        e4 == PackInto(e3, 18, Pack(date_val, 2))
        e5 == PackInto(e4, 20, Pack(first_cluster \div 65536, 2))
        e6 == PackInto(e5, 22, Pack(time_val, 2))
        e7 == PackInto(e6, 24, Pack(date_val, 2))
        e8 == PackInto(e7, 26, Pack(first_cluster % 65536, 2))
    IN  PackInto(e8, 28, Pack(file_size, 4))

\* a slip: range(0, len(dir_data) - 32, 32) never looks at the last slot
SlotOffsetsShort(dir_data) ==
    {i \in 0..(Len(dir_data) - DirEntrySize - 1) : i % DirEntrySize = 0}

\* "for i in range(0, len(dir_data), 32)": the slot offsets
SlotOffsets(dir_data) == {i \in 0..(Len(dir_data) - 1) : i % DirEntrySize = 0}

\* a slip: the test for the deleted marker inverted
IsFreeSlotInverted(dir_data, i) == dir_data[i + 1] # DeletedMarker

IsFreeSlot(dir_data, i) == dir_data[i + 1] = 0 \/ dir_data[i + 1] = DeletedMarker

\* the offset of the first empty (0x00) or deleted (0xE5) slot, -1 when the
\* loop falls through to its else
FindFreeSlot(dir_data) ==
    LET free == {i \in SlotOffsets(dir_data) : IsFreeSlot(dir_data, i)}
    IN  IF free = {} THEN -1 ELSE CHOOSE i \in free : \A j \in free : i <= j

\* the entry goes into slot i; the next slot's first byte is zeroed unless
\* it is a deleted marker
PutEntry(dir_data, i, entry) ==
    LET d1 == SliceAssign(dir_data, i, i + DirEntrySize, entry)
    IN  IF i + DirEntrySize < Len(d1) /\ d1[i + DirEntrySize + 1] # DeletedMarker
        THEN [d1 EXCEPT ![i + DirEntrySize + 1] = 0]
        ELSE d1

\* add_file_to_directory(filename, file_data) with directory_cluster = None:
\* allocate, copy the payload, then scan the root directory for a slot
\* a slip: a full directory leaves the builder as it was before the call
add_file_to_directory_rollback(b, filename, file_data, t) ==
    LET fat_filename == Format83(filename)
        file_size == file_data.size
        clusters_needed == CeilDiv(file_size, bytes_per_cluster)
        a == AllocateChain(b, file_size, clusters_needed)
    IN  IF a.raised # NoError
        THEN [b |-> a.b, raised |-> a.raised, first_cluster |-> a.first_cluster,
              slot |-> -1, name |-> fat_filename]
        ELSE
        LET image1 == WriteClusters(a.b.disk_image, file_data, a.first_cluster,
                                    0, clusters_needed)
            dir_offset == cluster_to_sector(root_cluster) * sector_size
            dir_data == Slice(image1, dir_offset, dir_offset + bytes_per_cluster)
            i == FindFreeSlot(dir_data)
        IN  IF i < 0
            THEN [b |-> b,
                  raised |-> "DirectoryFull", first_cluster |-> a.first_cluster,
                  slot |-> -1, name |-> fat_filename]
            ELSE
            LET entry == FileEntry(fat_filename, a.first_cluster, file_size, t)
                dir2 == PutEntry(dir_data, i, entry)
            IN  [b |-> [a.b EXCEPT !.disk_image =
                            SliceAssign(image1, dir_offset,
                                        dir_offset + bytes_per_cluster, dir2)],
                 raised |-> NoError, first_cluster |-> a.first_cluster,
                 slot |-> i, name |-> fat_filename]

add_file_to_directory(b, filename, file_data, t) ==
    LET fat_filename == Format83(filename)
        file_size == file_data.size
        clusters_needed == CeilDiv(file_size, bytes_per_cluster)
        a == AllocateChain(b, file_size, clusters_needed)
    IN  IF a.raised # NoError
        THEN [b |-> a.b, raised |-> a.raised, first_cluster |-> a.first_cluster,
              slot |-> -1, name |-> fat_filename]
        ELSE
        LET image1 == WriteClusters(a.b.disk_image, file_data, a.first_cluster,
                                    0, clusters_needed)
            dir_offset == cluster_to_sector(root_cluster) * sector_size
            dir_data == Slice(image1, dir_offset, dir_offset + bytes_per_cluster)
            i == FindFreeSlot(dir_data)
        IN  IF i < 0
            THEN [b |-> [a.b EXCEPT !.disk_image = image1],
                  raised |-> "DirectoryFull", first_cluster |-> a.first_cluster,
                  slot |-> -1, name |-> fat_filename]
            ELSE
            LET entry == FileEntry(fat_filename, a.first_cluster, file_size, t)
                dir2 == PutEntry(dir_data, i, entry)
            IN  [b |-> [a.b EXCEPT !.disk_image =
                            SliceAssign(image1, dir_offset,
                                        dir_offset + bytes_per_cluster, dir2)],
                 raised |-> NoError, first_cluster |-> a.first_cluster,
                 slot |-> i, name |-> fat_filename]

\* create_boot_sector: the sector's fields, head offsets as in the source,
\* the signature in the last two bytes
BD_boot_sector(mb) ==
    LET s0 == PackInto(Zeros(sector_size), 0, <<235, 88, 144>>)
        s1 == PackInto(s0, 3, L_NumOS_OEM)
        s2 == PackInto(s1, 11, Pack(sector_size, 2))
        s3 == PackInto(s2, 13, Pack(sectors_per_cluster, 1))
        s4 == PackInto(s3, 14, Pack(reserved_sectors, 2))
        s5 == PackInto(s4, 16, Pack(fat_count, 1))
        s6 == PackInto(s5, 21, <<248>>)
        s7 == PackInto(s6, 24, Pack(63, 2))
        s8 == PackInto(s7, 26, Pack(255, 2))
        s9 == PackInto(s8, 32, Pack(total_sectors(mb), 4))
        s10 == PackInto(s9, 36, Pack(sectors_per_fat, 4))
        s11 == PackInto(s10, 44, Pack(root_cluster, 4))
        s12 == PackInto(s11, 48, Pack(1, 2))
        s13 == PackInto(s12, 50, Pack(BackupBootSector, 2))
        s14 == PackInto(s13, 64, <<128, 0, 41>>)
        s15 == PackInto(s14, 67, Pack(305419896, 4))
        s16 == PackInto(s15, 71, L_NumOS_FAT32)
        s17 == PackInto(s16, 82, L_FAT32)
    IN  PackInto(s17, sector_size - 2, Pack(43605, 2))

\* create_fsinfo: lead signature at 0; the struct signature, the counts and
\* the trail signature 28, 24, 20 and 2 bytes before the end
BD_fsinfo ==
    LET s0 == PackInto(Zeros(sector_size), 0, Pack(1096897106, 4))
        s1 == PackInto(s0, sector_size - 28, Pack(1631679090, 4))
        s2 == PackInto(s1, sector_size - 24, <<255, 255, 255, 255>>)
        s3 == PackInto(s2, sector_size - 20, Pack(3, 4))
    IN  PackInto(s3, sector_size - 2, Pack(43605, 2))

\* create_root_directory: one cluster, the volume label in slot 0
BD_root_data ==
    LET volume_entry == PackInto(PackInto(Zeros(DirEntrySize), 0, L_NumOS_FAT32),
                                 11, <<8>>)
    IN  PackInto(Zeros(bytes_per_cluster), 0, volume_entry)

\* write_fat_tables: every entry as 4 little-endian bytes, padded to a sector
PackEntries(table) ==
    [k \in 1..(Len(table) * FatEntrySize) |->
        Pack(table[((k - 1) \div FatEntrySize) + 1], FatEntrySize)
            [((k - 1) % FatEntrySize) + 1]]

SerializeFat(table) ==
    LET fat_data == PackEntries(table)
    IN  fat_data \o Zeros((sector_size - (Len(fat_data) % sector_size)) % sector_size)

\* a slip: only the first copy is written
WriteFatCopiesFirstOnly(image, fat_data, i) ==
    SliceAssign(image, fat_start_sector * sector_size,
                fat_start_sector * sector_size + Len(fat_data), fat_data)

RECURSIVE WriteFatCopies(_, _, _)
WriteFatCopies(image, fat_data, i) ==
    IF i >= fat_count THEN image
    ELSE LET start_offset == (fat_start_sector + i * sectors_per_fat) * sector_size
         IN  WriteFatCopies(
                 SliceAssign(image, start_offset, start_offset + Len(fat_data), fat_data),
                 fat_data, i + 1)

\* ---------------------------------- create_disk_fixed.py: the encoders
CF_boot_sector ==
    LET s0 == PackInto(Zeros(BYTES_PER_SECTOR), 0, <<235, 88, 144>>)
        s1 == PackInto(s0, 3, L_NUMOS10)
        s2 == PackInto(s1, 11, Pack(BYTES_PER_SECTOR, 2))
        s3 == PackInto(s2, 13, Pack(SECTORS_PER_CLUSTER, 1))
        s4 == PackInto(s3, 14, Pack(RESERVED_SECTORS, 2))
        s5 == PackInto(s4, 16, Pack(NUM_FATS, 1))
        s6 == PackInto(s5, 21, <<248>>)
        s7 == PackInto(s6, 24, Pack(63, 2))
        s8 == PackInto(s7, 26, Pack(16, 2))
        s9 == PackInto(s8, 32, Pack(CF_total_sectors, 4))
        s10 == PackInto(s9, 36, Pack(fat_size, 4))
        s11 == PackInto(s10, 44, Pack(2, 4))
        s12 == PackInto(s11, 48, Pack(1, 2))
        s13 == PackInto(s12, 50, Pack(BackupBootSector, 2))
        s14 == PackInto(s13, 64, <<128, 0, 41>>)
        s15 == PackInto(s14, 67, Pack(305419896, 4))
        s16 == PackInto(s15, 71, L_NUMOS_DISK)
        s17 == PackInto(s16, 82, L_FAT32)
    IN  PackInto(s17, BYTES_PER_SECTOR - 2, <<85, 170>>)

CF_fsinfo ==
    LET s0 == PackInto(Zeros(BYTES_PER_SECTOR), 0, Pack(1096897106, 4))
        s1 == PackInto(s0, BYTES_PER_SECTOR - 28, Pack(1631679090, 4))
        s2 == PackInto(s1, BYTES_PER_SECTOR - 24, <<255, 255, 255, 255>>)
        s3 == PackInto(s2, BYTES_PER_SECTOR - 20, Pack(2, 4))
    IN  PackInto(s3, BYTES_PER_SECTOR - 4, <<0, 0, 85, 170>>)

\* "for i in range(2, RESERVED_SECTORS)": the boot sector again at sector 6,
\* zeros elsewhere
RECURSIVE CF_reserved(_)
CF_reserved(i) ==
    IF i >= RESERVED_SECTORS THEN << >>
    ELSE (IF i = BackupBootSector THEN CF_boot_sector ELSE Zeros(BYTES_PER_SECTOR))
         \o CF_reserved(i + 1)

\* struct.pack_into('<I', fat, off, v): struct.error past the buffer
CF_PackFat(r, off, v) ==
    IF r.raised # NoError THEN r
    ELSE IF off + FatEntrySize > Len(r.fat)
         THEN [r EXCEPT !.raised = "struct.error"]
         ELSE [r EXCEPT !.fat = PackInto(r.fat, off, Pack(v, FatEntrySize))]

\* the value create_fat stores for chain position i of clusters_needed
CF_ChainValue(cluster_idx, i, clusters_needed) ==
    IF i = clusters_needed - 1 THEN EOC ELSE cluster_idx + 1

\* pass i of "for i in range(clusters_needed)"
CF_ChainStep(r, i, clusters_needed) ==
    LET cluster_idx == 6 + i
    IN  CF_PackFat(r, cluster_idx * FatEntrySize,
                   CF_ChainValue(cluster_idx, i, clusters_needed))

\* passes i .. i + n - 1 in order (the first half of them, then the rest)
RECURSIVE CF_ChainLoop(_, _, _, _)
CF_ChainLoop(r, i, n, clusters_needed) ==
    IF n <= 0 \/ r.raised # NoError THEN r
    ELSE IF n = 1 THEN CF_ChainStep(r, i, clusters_needed)
    ELSE LET half == CF_ChainLoop(r, i, n \div 2, clusters_needed)
         IN  IF half.raised # NoError THEN half
             ELSE CF_ChainLoop(half, i + (n \div 2), n - (n \div 2), clusters_needed)

\* create_fat(total_sectors, fat_size, file_size): [fat, raised]
create_fat(file_size) ==
    LET r0 == [fat |-> Zeros(fat_size * BYTES_PER_SECTOR), raised |-> NoError]
        r1 == CF_PackFat(r0, 0, MediaEntry)
        r2 == CF_PackFat(r1, 4, EOC)
        r3 == CF_PackFat(r2, 8, EOC)
        r4 == CF_PackFat(r3, 12, EOC)
        r5 == CF_PackFat(r4, 16, EOC)
        r6 == CF_PackFat(r5, 20, EOC)
    IN  IF file_size > 0
        THEN CF_ChainLoop(r6, 0, CeilDiv(file_size, BYTES_PER_CLUSTER),
                          CeilDiv(file_size, BYTES_PER_CLUSTER))
        ELSE r6

create_directory_entry(name, attr, cluster, size) ==
    LET e0 == PackInto(Zeros(DirEntrySize), 0, Slice(LJust(name, 11), 0, 11))
        e1 == PackInto(e0, 11, <<attr>>)
        e2 == PackInto(e1, 16, <<33, 0>>)
        e3 == PackInto(e2, 18, <<33, 0>>)
        e4 == PackInto(e3, 20, Pack((cluster \div 65536) % 65536, 2))
        e5 == PackInto(e4, 24, <<33, 0>>)
        e6 == PackInto(e5, 26, Pack(cluster % 65536, 2))
    IN  PackInto(e6, 28, Pack(size, 4))

DIR_ATTR == 16
FILE_ATTR == 32

CF_root_directory ==
    LET c0 == Zeros(BYTES_PER_CLUSTER)
        c1 == SliceAssign(c0, 0, 32, create_directory_entry(L_DOT, DIR_ATTR, 2, 0))
        c2 == SliceAssign(c1, 32, 64, create_directory_entry(L_DOTDOT, DIR_ATTR, 0, 0))
        c3 == SliceAssign(c2, 64, 96, create_directory_entry(L_INIT, DIR_ATTR, 3, 0))
        c4 == SliceAssign(c3, 96, 128, create_directory_entry(L_BIN, DIR_ATTR, 4, 0))
    IN  SliceAssign(c4, 128, 160, create_directory_entry(L_RUN, DIR_ATTR, 5, 0))

create_init_directory(elf_size) ==
    LET c0 == Zeros(BYTES_PER_CLUSTER)
        c1 == SliceAssign(c0, 0, 32, create_directory_entry(L_DOT, DIR_ATTR, 3, 0))
        c2 == SliceAssign(c1, 32, 64, create_directory_entry(L_DOTDOT, DIR_ATTR, 2, 0))
    IN  IF elf_size > 0
        THEN SliceAssign(c2, 64, 96, create_directory_entry(L_SHELL, FILE_ATTR, 6, elf_size))
        ELSE c2

create_empty_directory(cluster_num) ==
    LET c0 == Zeros(BYTES_PER_CLUSTER)
        c1 == SliceAssign(c0, 0, 32, create_directory_entry(L_DOT, DIR_ATTR, cluster_num, 0))
    IN  SliceAssign(c1, 32, 64, create_directory_entry(L_DOTDOT, DIR_ATTR, 2, 0))

\* the ELF payload padded to a whole number of clusters
CF_elf_padded(data) ==
    LET clusters_needed == CeilDiv(data.size, BYTES_PER_CLUSTER)
        padded_size == clusters_needed * BYTES_PER_CLUSTER
    IN  DataSlice(data, 0, data.size) \o Zeros(padded_size - data.size)

\* "Fill rest of disk with zeros": nothing when the position is already
\* at or past the total size
CF_fill(current_pos) ==
    LET total_size == CF_total_sectors * BYTES_PER_SECTOR
        remaining == total_size - current_pos
    IN  IF remaining > 0 THEN Zeros(remaining) ELSE << >>

\* ============================================================== state
VARIABLES
    tool,               \* which script runs: "build_disk" or "create_disk_fixed"
    pc,                 \* the statement of main() to run next
    size_mb,            \* Fat32DiskBuilder(size_mb)
    disk_image,         \* self.disk_image
    fat_table,          \* self.fat_table
    next_free_cluster,  \* self.next_free_cluster
    now,                \* datetime.now()
    extra_done,         \* additional_files already visited
    raised,             \* the exception or exit that ended main(), if any
    elf,                \* create_disk_fixed: the elf_file argument
    out_state,          \* the output file: "absent", "open", "closed"
    out_file,           \* the output file's bytes
    files               \* history: one record per file handed to the builder

vars == <<tool, pc, size_mb, disk_image, fat_table, next_free_cluster, now,
          extra_done, raised, elf, out_state, out_file, files>>

NoElf == [given |-> FALSE, exists |-> FALSE, seed |-> 0, size |-> 0]
ElfArgs ==
    {NoElf} \cup {[given |-> TRUE, exists |-> f.exists, seed |-> f.seed, size |-> f.size] :
                    f \in LocalFiles}

Blank ==
    /\ pc = "start"
    /\ disk_image = << >>
    /\ fat_table = << >>
    /\ next_free_cluster = 0
    /\ extra_done = 0
    /\ raised = NoError
    /\ elf = NoElf
    /\ out_state = "absent"
    /\ out_file = << >>
    /\ files = << >>

Init ==
    /\ tool \in {"build_disk", "create_disk_fixed"}
    /\ size_mb = DiskSizeMiB
    /\ now = BuildTime
    /\ Blank

Builder == [disk_image |-> disk_image, fat_table |-> fat_table,
            next_free_cluster |-> next_free_cluster]

\* a slip: the call wrapped in try/except: pass
NextPcSwallow(exc, normal) == normal

\* an exception that main() does not catch ends it
NextPc(exc, normal) == IF exc # NoError THEN "aborted" ELSE normal

\* ------------------------------------------------ build_disk.py main()
BD_frame == UNCHANGED <<tool, size_mb, now, elf>>

\* Fat32DiskBuilder.__init__
BD_construct ==
    /\ tool = "build_disk" /\ pc = "start"
    /\ disk_image' = Zeros(size_bytes(size_mb))
    /\ fat_table' = [i \in 1..FatTableLen |-> 0]
    /\ next_free_cluster' = 3
    /\ pc' = "create_boot_sector"
    /\ UNCHANGED <<extra_done, raised, out_state, out_file, files>>
    /\ BD_frame

create_boot_sector ==
    /\ tool = "build_disk" /\ pc = "create_boot_sector"
    /\ disk_image' = SliceAssign(disk_image, 0, sector_size, BD_boot_sector(size_mb))
    /\ pc' = "create_fsinfo"
    /\ UNCHANGED <<fat_table, next_free_cluster, extra_done, raised, out_state,
                   out_file, files>>
    /\ BD_frame

create_fsinfo ==
    /\ tool = "build_disk" /\ pc = "create_fsinfo"
    /\ disk_image' = SliceAssign(disk_image, sector_size, 2 * sector_size, BD_fsinfo)
    /\ pc' = "initialize_fat"
    /\ UNCHANGED <<fat_table, next_free_cluster, extra_done, raised, out_state,
                   out_file, files>>
    /\ BD_frame

initialize_fat ==
    /\ tool = "build_disk" /\ pc = "initialize_fat"
    /\ fat_table' = [fat_table EXCEPT ![1] = MediaEntry, ![2] = EOC, ![3] = EOC]
    /\ pc' = "create_root_directory"
    /\ UNCHANGED <<disk_image, next_free_cluster, extra_done, raised, out_state,
                   out_file, files>>
    /\ BD_frame

create_root_directory ==
    /\ tool = "build_disk" /\ pc = "create_root_directory"
    /\ LET start_offset == cluster_to_sector(root_cluster) * sector_size
       IN  disk_image' = SliceAssign(disk_image, start_offset,
                                     start_offset + bytes_per_cluster, BD_root_data)
    /\ pc' = "add_kernel"
    /\ UNCHANGED <<fat_table, next_free_cluster, extra_done, raised, out_state,
                   out_file, files>>
    /\ BD_frame

\* a slip: no os.path.exists test, open() raises
add_file_unchecked(b, f, disk_filename, t) ==
    IF ~f.exists
    THEN [b |-> b, raised |-> "FileNotFoundError", first_cluster |-> 0, slot |-> -1,
          name |-> Format83(disk_filename), skipped |-> FALSE]
    ELSE LET r == add_file_to_directory(b, disk_filename,
                                        [seed |-> f.seed, size |-> f.size], t)
         IN  [b |-> r.b, raised |-> r.raised, first_cluster |-> r.first_cluster,
              slot |-> r.slot, name |-> r.name, skipped |-> FALSE]

\* add_file(local_path, disk_filename): a missing path is skipped
add_file(b, f, disk_filename, t) ==
    IF ~f.exists
    THEN [b |-> b, raised |-> NoError, first_cluster |-> 0, slot |-> -1,
          name |-> Format83(disk_filename), skipped |-> TRUE]
    ELSE LET r == add_file_to_directory(b, disk_filename,
                                        [seed |-> f.seed, size |-> f.size], t)
         IN  [b |-> r.b, raised |-> r.raised, first_cluster |-> r.first_cluster,
              slot |-> r.slot, name |-> r.name, skipped |-> FALSE]

Outcome(r) == IF r.skipped THEN "skipped"
              ELSE IF r.raised = NoError THEN "added" ELSE r.raised

\* the builder after one call, and where main() goes next
BD_after(r, data, exists, normal) ==
    /\ disk_image' = r.b.disk_image
    /\ fat_table' = r.b.fat_table
    /\ next_free_cluster' = r.b.next_free_cluster
    /\ raised' = r.raised
    /\ pc' = NextPc(r.raised, normal)
    /\ files' = Append(files, [name |-> r.name, data |-> data, exists |-> exists,
                               first_cluster |-> r.first_cluster,
                               slot |-> r.slot, outcome |-> Outcome(r)])
    /\ UNCHANGED <<out_state, out_file>>
    /\ BD_frame

\* builder.add_file(kernel_path, "KERNEL.BIN")
add_kernel ==
    /\ tool = "build_disk" /\ pc = "add_kernel"
    /\ \E f \in LocalFiles :
          BD_after(add_file(Builder, f, N_KERNEL_BIN, now),
                   [seed |-> f.seed, size |-> f.size], f.exists, "additional")
    /\ UNCHANGED extra_done

\* "for file_path in additional_files: builder.add_file(file_path)"
add_additional ==
    /\ tool = "build_disk" /\ pc = "additional" /\ extra_done < MaxExtra
    /\ \E f \in LocalFiles :
          BD_after(add_file(Builder, f, basename(f.path), now),
                   [seed |-> f.seed, size |-> f.size], f.exists, "additional")
    /\ extra_done' = extra_done + 1

\* additional_files is exhausted
additional_done ==
    /\ tool = "build_disk" /\ pc = "additional"
    /\ pc' = "add_config"
    /\ UNCHANGED <<disk_image, fat_table, next_free_cluster, extra_done, raised,
                   out_state, out_file, files>>
    /\ BD_frame

AddLiteral(filename, data, normal) ==
    LET r == add_file_to_directory(Builder, filename, data, now)
    IN  BD_after([b |-> r.b, raised |-> r.raised, first_cluster |-> r.first_cluster,
                  slot |-> r.slot, name |-> r.name, skipped |-> FALSE],
                 data, TRUE, normal)

add_config ==
    /\ tool = "build_disk" /\ pc = "add_config"
    /\ AddLiteral(N_CONFIG_TXT, config_data, "add_readme")
    /\ UNCHANGED extra_done

add_readme ==
    /\ tool = "build_disk" /\ pc = "add_readme"
    /\ AddLiteral(N_README_TXT, readme_data, "write_fat_tables")
    /\ UNCHANGED extra_done

write_fat_tables ==
    /\ tool = "build_disk" /\ pc = "write_fat_tables"
    /\ disk_image' = WriteFatCopies(disk_image, SerializeFat(fat_table), 0)
    /\ pc' = "save"
    /\ UNCHANGED <<fat_table, next_free_cluster, extra_done, raised, out_state,
                   out_file, files>>
    /\ BD_frame

save ==
    /\ tool = "build_disk" /\ pc = "save"
    /\ out_file' = disk_image
    /\ out_state' = "closed"
    /\ pc' = "done"
    /\ UNCHANGED <<disk_image, fat_table, next_free_cluster, extra_done, raised, files>>
    /\ BD_frame

BD_Next ==
    \/ BD_construct \/ create_boot_sector \/ create_fsinfo \/ initialize_fat
    \/ create_root_directory \/ add_kernel \/ add_additional \/ additional_done
    \/ add_config \/ add_readme \/ write_fat_tables \/ save

\* ----------------------------------------- create_disk_fixed.py main()
CF_frame == UNCHANGED <<tool, size_mb, now, disk_image, fat_table,
                        next_free_cluster, extra_done>>

\* a write appends at the file position
CF_write(bytes, next) ==
    /\ out_file' = out_file \o bytes
    /\ pc' = next
    /\ UNCHANGED <<raised, elf, out_state, files>>
    /\ CF_frame

\* "Load ELF file if provided": a path that is no file ends the run, status 1
CF_load_elf ==
    /\ tool = "create_disk_fixed" /\ pc = "start"
    /\ \E e \in ElfArgs :
          /\ elf' = e
          /\ IF e.given /\ ~e.exists
             THEN pc' = "exited" /\ raised' = "SystemExit"
             ELSE pc' = "open" /\ raised' = raised
    /\ UNCHANGED <<out_state, out_file, files>>
    /\ CF_frame

elf_size == IF elf.given /\ elf.exists THEN elf.size ELSE 0
elf_data == [seed |-> elf.seed, size |-> elf_size]

\* open(output_file, 'wb') and the boot sector
CF_write_boot ==
    /\ tool = "create_disk_fixed" /\ pc = "open"
    /\ out_state' = "open"
    /\ out_file' = CF_boot_sector
    /\ pc' = "fsinfo"
    /\ UNCHANGED <<raised, elf, files>>
    /\ CF_frame

CF_write_fsinfo ==
    /\ tool = "create_disk_fixed" /\ pc = "fsinfo"
    /\ CF_write(CF_fsinfo, "reserved")

CF_write_reserved ==
    /\ tool = "create_disk_fixed" /\ pc = "reserved"
    /\ CF_write(CF_reserved(2), "fat")

RECURSIVE Repeat(_, _)
Repeat(bytes, n) == IF n <= 0 THEN << >> ELSE bytes \o Repeat(bytes, n - 1)

\* create_fat, then one write per copy; struct.error leaves the "with" block
CF_write_fat ==
    /\ tool = "create_disk_fixed" /\ pc = "fat"
    /\ LET r == create_fat(elf_size)
       IN  IF r.raised # NoError
           THEN /\ raised' = r.raised
                /\ pc' = NextPc(r.raised, "root")
                /\ out_state' = "closed"
                /\ UNCHANGED <<out_file, elf, files>>
                /\ CF_frame
           ELSE CF_write(Repeat(r.fat, NUM_FATS), "root")

CF_write_root ==
    /\ tool = "create_disk_fixed" /\ pc = "root"
    /\ CF_write(CF_root_directory, "init")

CF_write_init ==
    /\ tool = "create_disk_fixed" /\ pc = "init"
    /\ CF_write(create_init_directory(elf_size), "bin")

CF_write_bin ==
    /\ tool = "create_disk_fixed" /\ pc = "bin"
    /\ CF_write(create_empty_directory(4), "run")

CF_write_run ==
    /\ tool = "create_disk_fixed" /\ pc = "run"
    /\ CF_write(create_empty_directory(5), "elf")

\* "if elf_data:" is false for no ELF and for an empty one
CF_write_elf ==
    /\ tool = "create_disk_fixed" /\ pc = "elf"
    /\ out_file' = out_file \o (IF elf_size > 0 THEN CF_elf_padded(elf_data) ELSE << >>)
    /\ files' = IF elf_size > 0
                THEN Append(files, [name |-> L_SHELL, data |-> elf_data,
                                    exists |-> TRUE, first_cluster |-> 6, slot |-> 64,
                                    outcome |-> "added"])
                ELSE files
    /\ pc' = "fill"
    /\ UNCHANGED <<raised, elf, out_state>>
    /\ CF_frame

CF_write_fill ==
    /\ tool = "create_disk_fixed" /\ pc = "fill"
    /\ out_file' = out_file \o CF_fill(Len(out_file))
    /\ out_state' = "closed"
    /\ pc' = "done"
    /\ UNCHANGED <<raised, elf, files>>
    /\ CF_frame

CF_Next ==
    \/ CF_load_elf \/ CF_write_boot \/ CF_write_fsinfo \/ CF_write_reserved
    \/ CF_write_fat \/ CF_write_root \/ CF_write_init \/ CF_write_bin
    \/ CF_write_run \/ CF_write_elf \/ CF_write_fill

Next == BD_Next \/ CF_Next

Spec == Init /\ [][Next]_vars

\* ---------------------------------- the constructor over a range of sizes
InitGeom ==
    /\ tool = "build_disk"
    /\ size_mb \in 1..MaxSizeMb
    /\ now = BuildTime
    /\ Blank

NextGeom == BD_construct

SpecGeom == InitGeom /\ [][NextGeom]_vars

\* ====================================================== reading an image
IsBD == tool = "build_disk"
IsCF == tool = "create_disk_fixed"

\* the image under construction: the builder's buffer, or the file so far
Image == IF IsBD THEN disk_image ELSE out_file
TotalBytes == IF IsBD THEN total_sectors(size_mb) * sector_size
                      ELSE CF_total_sectors * BYTES_PER_SECTOR
DataStart == IF IsBD THEN data_start_sector ELSE CF_data_start_sector
ClusterOffset(c) == (DataStart + (c - 2) * sectors_per_cluster) * sector_size

\* the directory that holds the files' entries: the root (build_disk),
\* /init in cluster 3 (create_disk_fixed)
DirCluster == IF IsBD THEN root_cluster ELSE 3
EntryAt(image, slot) ==
    Slice(image, ClusterOffset(DirCluster) + slot,
          ClusterOffset(DirCluster) + slot + DirEntrySize)
EntryName(e) == SubSeq(e, 1, 11)
EntryClusterHigh(e) == Unpack(SubSeq(e, 21, 22))
EntryClusterLow(e) == Unpack(SubSeq(e, 27, 28))
EntryFirstCluster(e) == EntryClusterHigh(e) * 65536 + EntryClusterLow(e)
EntrySize(e) == Unpack(SubSeq(e, 29, 32))

\* FAT entry c: the builder's table, or the first FAT copy of the file
FatEntries == IF IsBD THEN Len(fat_table)
                      ELSE (fat_size * BYTES_PER_SECTOR) \div FatEntrySize
FatEntry(c) ==
    IF IsBD THEN fat_table[c + 1]
    ELSE Unpack(Slice(out_file, RESERVED_SECTORS * BYTES_PER_SECTOR + c * FatEntrySize,
                      RESERVED_SECTORS * BYTES_PER_SECTOR + (c + 1) * FatEntrySize))
IsEOC(v) == v >= MediaEntry

\* the clusters reached from c by following FAT entries, at most fuel + 1 of
\* them; -1 marks a chain that leaves the table or does not end in time
RECURSIVE Chain(_, _)
Chain(c, fuel) ==
    IF c < 2 \/ c >= FatEntries THEN <<-1>>
    ELSE IF IsEOC(FatEntry(c)) THEN <<c>>
    ELSE IF fuel = 0 THEN <<c, -1>>
    ELSE <<c>> \o Chain(FatEntry(c), fuel - 1)

FileChain(f) == IF f.first_cluster = 0 THEN << >>
                ELSE Chain(f.first_cluster, CeilDiv(f.data.size, bytes_per_cluster))

Added == {i \in 1..Len(files) : files[i].outcome = "added"}
Last(s) == s[Len(s)]
\* this step handed one more file to the builder
FileStep == Len(files') = Len(files) + 1

\* ================================================================ claims

\* C1: after any sequence of file additions followed by save, the image is
\* exactly totalSectors * bytesPerSector bytes long: the buffer never
\* becomes longer or shorter, and neither does the written file.
C1_LengthExact ==
    /\ (IsBD /\ pc # "start") => Len(disk_image) = TotalBytes
    /\ (pc = "done") => Len(out_file) = TotalBytes

\* C2: in every finished image the sector at the backup location (sector 6)
\* is byte-identical to the boot sector at sector 0, for both builders.
C2_BackupBootIdentical ==
    pc = "done" =>
        Slice(out_file, BackupBootSector * sector_size,
              (BackupBootSector + 1) * sector_size)
          = Slice(out_file, 0, sector_size)

\* C10: for every image size the builder accepts, sectorsPerFat is at least
\* ceil(dataClusters * 4 / bytesPerSector), dataClusters being the clusters
\* of the data area plus the two reserved entries.
DataClusters(mb) ==
    ((total_sectors(mb) - data_start_sector) \div sectors_per_cluster) + 2
C10_FatCoversImage ==
    (IsBD /\ pc # "start") =>
        sectors_per_fat >= CeilDiv(DataClusters(size_mb) * FatEntrySize, sector_size)

\* C3: every added file of size S > 0 has a FAT chain of exactly
\* ceil(S / bytesPerCluster) clusters; each entry but the last holds the
\* index of a strictly higher cluster and the last holds an end-of-chain
\* marker.
C3_ChainOf(f) ==
    LET n == CeilDiv(f.data.size, bytes_per_cluster)
        ch == FileChain(f)
    IN  /\ Len(ch) = n
        /\ \A k \in 1..n : ch[k] >= 2
        /\ \A k \in 1..(n - 1) : FatEntry(ch[k]) = ch[k + 1] /\ ch[k + 1] > ch[k]
        /\ IsEOC(FatEntry(ch[n]))
C3_ChainShape ==
    \A i \in Added : files[i].data.size > 0 => C3_ChainOf(files[i])

\* C3 happens: a three-cluster file and a later file are both in the image
C3_Witness ==
    \E i, j \in Added :
        /\ i < j
        /\ files[i].data.size > 2 * bytes_per_cluster
        /\ files[j].data.size > 0

\* C4: for every added file, the clusters reached from the first cluster
\* recorded in its directory entry, read in chain order, hold the payload
\* followed only by zeros up to the end of the last cluster; later
\* additions do not change that.
C4_ReadBack(f) ==
    LET e == EntryAt(Image, f.slot)
        n == CeilDiv(f.data.size, bytes_per_cluster)
        first == EntryFirstCluster(e)
    IN  /\ EntrySize(e) = f.data.size
        /\ \A ch \in {IF first = 0 THEN << >> ELSE Chain(first, n)} :
              /\ Len(ch) = n
              /\ \A k \in 1..n : ch[k] >= 2
              /\ \A padded \in {DataSlice(f.data, 0, f.data.size)
                                   \o Zeros(n * bytes_per_cluster - f.data.size)} :
                    \A k \in 1..n :
                        Slice(Image, ClusterOffset(ch[k]),
                              ClusterOffset(ch[k]) + bytes_per_cluster)
                          = SubSeq(padded, (k - 1) * bytes_per_cluster + 1,
                                   k * bytes_per_cluster)
C4_RoundTrip == \A i \in Added : C4_ReadBack(files[i])

\* C4 happens: a payload that ends inside its last cluster, with a file
\* added after it
C4_Witness ==
    \E i, j \in Added :
        /\ i < j
        /\ files[i].data.size > bytes_per_cluster
        /\ files[i].data.size % bytes_per_cluster # 0
        /\ files[j].data.size > 0

\* the root directory cluster of build_disk.py
RootOffset == cluster_to_sector(root_cluster) * sector_size
RootDir(image) == Slice(image, RootOffset, RootOffset + bytes_per_cluster)
RootSlots == bytes_per_cluster \div DirEntrySize
\* the calls that reached the slot scan
Scanned == {i \in 1..Len(files) : files[i].outcome \in {"added", "DirectoryFull"}}
AddedBefore(i) == Cardinality({j \in Added : j < i})

\* C5 : into the root directory, whose slot 0 holds the volume
\* label, exactly bytesPerCluster/32 - 1 entries can be inserted; an
\* insertion succeeds while fewer than that many are in, and every one
\* attempted after that raises "Directory full".
C5_RootCapacity ==
    IsBD =>
        /\ Cardinality(Added) <= RootSlots - 1
        /\ \A i \in Scanned :
              (files[i].outcome = "added") <=> (AddedBefore(i) < RootSlots - 1)

\* C5 happens: the directory is full and one more insertion was refused
C5_Witness ==
    /\ IsBD
    /\ Cardinality(Added) = RootSlots - 1
    /\ \E i \in 1..Len(files) : files[i].outcome = "DirectoryFull"

\* C5 as stated: at most bytesPerCluster/32 - 2 insertions into one
\* single-cluster directory succeed.
C5_Original == IsBD => Cardinality(Added) <= RootSlots - 2

\* C6 : in build_disk.py a declared path that does not exist is
\* skipped: allocator, FAT and image are unchanged, nothing is raised and
\* main() goes on to the next input; in create_disk_fixed.py a missing ELF
\* path ends the run before the output file is opened.
C6_MissingStep == IsBD /\ FileStep /\ ~Last(files').exists
C6_MissingPath ==
    /\ [][C6_MissingStep =>
            /\ Last(files').outcome = "skipped"
            /\ UNCHANGED <<disk_image, fat_table, next_free_cluster>>
            /\ raised' = NoError
            /\ pc' = "additional"]_vars
    /\ []((IsCF /\ elf.given /\ ~elf.exists) =>
            (pc = "exited" /\ out_state = "absent" /\ out_file = << >>))

\* C6 happens: a build skipped a missing path, added a later file and
\* wrote its image
C6_Witness ==
    /\ IsBD /\ pc = "done" /\ out_state = "closed"
    /\ \E i, j \in 1..Len(files) :
          i < j /\ ~files[i].exists /\ files[j].outcome = "added"

\* C6 as stated: a declared path that does not exist never ends the run.
C6_Original ==
    /\ \A i \in 1..Len(files) : ~files[i].exists => files[i].outcome = "skipped"
    /\ (elf.given /\ ~elf.exists) => pc # "exited"

\* C7: once an insertion raised "Directory full" the build is over: no
\* later file is handed to the builder, the FAT copies are never written
\* into the image and the output file is never written.
C7_DirectoryFullFatal ==
    (\E i \in 1..Len(files) : files[i].outcome = "DirectoryFull") =>
        /\ pc = "aborted"
        /\ Last(files).outcome = "DirectoryFull"
        /\ out_state = "absent"
        /\ Slice(disk_image, fat_start_sector * sector_size,
                 data_start_sector * sector_size)
             = Zeros(fat_count * sectors_per_fat * sector_size)

\* C7 happens: an insertion raised "Directory full"
C7_Witness ==
    \E i \in 1..Len(files) : files[i].outcome = "DirectoryFull"

\* C8: adding a zero-byte file allocates nothing: the allocator counter and
\* the FAT are unchanged, the image is unchanged outside the directory
\* cluster, and the entry records first cluster 0 (both halves) and size 0.
C8_ZeroStep == IsBD /\ FileStep /\ Last(files').exists /\ Last(files').data.size = 0
C8_ZeroByteFile ==
    [][C8_ZeroStep =>
        /\ next_free_cluster' = next_free_cluster
        /\ fat_table' = fat_table
        /\ Len(disk_image') = Len(disk_image)
        /\ Slice(disk_image', 0, RootOffset) = Slice(disk_image, 0, RootOffset)
        /\ Slice(disk_image', RootOffset + bytes_per_cluster, Len(disk_image'))
             = Slice(disk_image, RootOffset + bytes_per_cluster, Len(disk_image))
        /\ Last(files').outcome \in {"added", "DirectoryFull"}
        /\ Last(files').outcome = "added" =>
              LET e == EntryAt(disk_image', Last(files').slot)
              IN  /\ EntryName(e) = Last(files').name
                  /\ EntryClusterHigh(e) = 0
                  /\ EntryClusterLow(e) = 0
                  /\ EntrySize(e) = 0]_vars

\* C8 happens: a zero-byte file was added after a file that took clusters
C8_Witness ==
    /\ IsBD /\ Len(files) >= 2
    /\ Last(files).outcome = "added" /\ Last(files).data.size = 0
    /\ next_free_cluster > 3

\* C9: an insertion writes its entry into the first slot whose first byte is
\* 0x00 or 0xE5; every other byte of the directory is unchanged, but for the
\* first byte of the following slot, which becomes 0 unless it is 0xE5; so
\* every entry written before stays as it was, in a slot of its own.
C9_AddedStep == IsBD /\ FileStep /\ Last(files').outcome = "added"
C9_Insertion ==
    [][C9_AddedStep =>
        LET f == Last(files')
            s == f.slot
            old == RootDir(disk_image)
            new == RootDir(disk_image')
        IN  /\ s >= 0 /\ s % DirEntrySize = 0 /\ s + DirEntrySize <= Len(old)
            /\ old[s + 1] \in {0, DeletedMarker}
            /\ \A j \in 0..(s - 1) :
                  j % DirEntrySize = 0 => old[j + 1] \notin {0, DeletedMarker}
            /\ SubSeq(new, s + 1, s + 11) = f.name
            /\ Len(new) = Len(old)
            /\ \A k \in 1..Len(old) :
                  ((k <= s \/ k > s + DirEntrySize) /\ k # s + DirEntrySize + 1)
                      => new[k] = old[k]
            /\ s + DirEntrySize < Len(old) =>
                  new[s + DirEntrySize + 1] =
                      (IF old[s + DirEntrySize + 1] = DeletedMarker
                       THEN DeletedMarker ELSE 0)
            /\ \A i \in Added :
                  /\ files[i].slot # s
                  /\ EntryAt(disk_image', files[i].slot)
                       = EntryAt(disk_image, files[i].slot)]_vars

\* C9 happens: two different files whose 8.3 names are identical sit in two
\* slots
C9_Witness ==
    /\ IsBD
    /\ \E i, j \in Added :
          /\ i < j
          /\ files[i].name = files[j].name
          /\ files[i].data # files[j].data
          /\ files[i].slot # files[j].slot
          /\ EntryName(EntryAt(disk_image, files[i].slot)) = files[i].name
          /\ EntryName(EntryAt(disk_image, files[j].slot)) = files[j].name

\* FAT copy i (0 or 1) of an image
FatSectors == IF IsBD THEN sectors_per_fat ELSE fat_size
FatCopy(image, i) ==
    Slice(image, (reserved_sectors + i * FatSectors) * sector_size,
          (reserved_sectors + (i + 1) * FatSectors) * sector_size)
\* the FAT the builder holds in memory, as bytes
MemoryFat == IF IsBD THEN SerializeFat(fat_table) ELSE create_fat(elf_size).fat
\* the FAT copies have been written into the image
FatWritten == \/ IsBD /\ pc \in {"save", "done"}
              \/ IsCF /\ pc \in {"root", "init", "bin", "run", "elf", "fill", "done"}

\* C11: once the FAT copies are written, the two copies in the image are
\* byte-identical and each is the serialization of the in-memory FAT table
\* as the last file addition left it; the same holds in the written file.
C11_FatCopiesIdentical ==
    /\ FatWritten =>
          /\ FatCopy(Image, 0) = FatCopy(Image, 1)
          /\ FatCopy(Image, 0) = MemoryFat
          /\ Len(MemoryFat) = FatSectors * sector_size
    /\ (IsBD /\ pc = "done") =>
          /\ FatCopy(out_file, 0) = FatCopy(out_file, 1)
          /\ FatCopy(out_file, 0) = MemoryFat

\* C11 happens: a finished build_disk image whose FAT holds the chain of a
\* file of several clusters
C11_Witness ==
    /\ IsBD /\ pc = "done" /\ out_state = "closed"
    /\ \E i \in Added : files[i].data.size > bytes_per_cluster
    /\ FatCopy(out_file, 1) # Zeros(FatSectors * sector_size)

\* the calls of add_file_to_directory in which allocate_cluster returned
Allocating == {i \in 1..Len(files) : files[i].first_cluster # 0}
\* what the first allocate_cluster call after call i returned, or will return
NextStart(i) ==
    IF \E j \in Allocating : j > i
    THEN files[CHOOSE j \in Allocating :
                  j > i /\ \A k \in Allocating : k > i => k >= j].first_cluster
    ELSE next_free_cluster

\* C12: in one build_disk session allocate_cluster returns 3 on its first
\* call and one more on each later call: the clusters handed out in call
\* order are 3, 4, 5, ... up to the counter, each marked once in the FAT, so
\* cluster 2 is never handed out and the files' chains are consecutive,
\* disjoint runs; the counter never goes back.
C12_AllocatorOrder ==
    /\ []((IsBD /\ pc # "start") =>
            /\ next_free_cluster >= 3
            /\ Allocating = {} => next_free_cluster = 3
            /\ \A c \in next_free_cluster..(Len(fat_table) - 1) : FatEntry(c) = 0
            /\ \A i \in Allocating :
                  LET first == files[i].first_cluster
                      end == NextStart(i)
                  IN  /\ first >= 3 /\ end > first /\ end <= Len(fat_table)
                      /\ (\A j \in Allocating : j >= i) => first = 3
                      /\ \A c \in first..(end - 2) : FatEntry(c) = c + 1
                      /\ FatEntry(end - 1) = EOC
                      /\ files[i].outcome \in {"added", "DirectoryFull"} =>
                            end - first = CeilDiv(files[i].data.size, bytes_per_cluster))
    /\ [][IsBD => next_free_cluster' >= next_free_cluster]_vars

\* C12 happens: a file of several clusters, then a second file that starts
\* right after it
C12_Witness ==
    /\ IsBD
    /\ \E i, j \in Allocating :
          /\ i < j
          /\ files[i].first_cluster = 3
          /\ files[i].data.size > bytes_per_cluster
          /\ files[j].first_cluster
                = 3 + CeilDiv(files[i].data.size, bytes_per_cluster)

\* everything before the data area: boot sector, FSInfo, reserved sectors,
\* both FAT copies
Header(image) == Slice(image, 0, DataStart * sector_size)
\* the steps that write a directory or a payload
DataWriteStep ==
    \/ IsBD /\ pc \in {"create_root_directory", "add_kernel", "additional",
                        "add_config", "add_readme"}
    \/ IsCF /\ pc \in {"root", "init", "bin", "run", "elf"}
ChainClusters(f) == {FileChain(f)[k] : k \in 1..Len(FileChain(f))}

\* C13: a directory or payload write changes no byte before
\* dataStartSector * bytesPerSector (build_disk.py writes at cluster offsets,
\* create_disk_fixed.py appends once the header is complete), and of two
\* added files the later one's clusters all lie above the earlier one's.
C13_DataAreaOnly ==
    /\ [][DataWriteStep =>
            /\ Len(Image) >= DataStart * sector_size
            /\ Header(Image') = Header(Image)
            /\ IsCF => Slice(out_file', 0, Len(out_file)) = out_file]_vars
    /\ [](\A i, j \in Added :
             (i < j /\ files[i].data.size > 0 /\ files[j].data.size > 0) =>
                 \A a \in ChainClusters(files[i]), b \in ChainClusters(files[j]) :
                     a < b)

\* C13 happens: two files of which the first takes several clusters were
\* written and the boot sector is as create_boot_sector left it
C13_Witness ==
    /\ IsBD /\ pc = "write_fat_tables"
    /\ Slice(disk_image, 0, sector_size) = BD_boot_sector(size_mb)
    /\ \E i, j \in Added :
          /\ i < j
          /\ files[i].data.size > bytes_per_cluster
          /\ files[j].data.size > 0

\* the step in which an insertion of a payload of S > 0 bytes was refused
DirectoryFullStep ==
    /\ IsBD /\ FileStep
    /\ Last(files').outcome = "DirectoryFull"
    /\ Last(files').data.size > 0

\* C14: when add_file_to_directory raises "Directory full" for a file of
\* S > 0 bytes, the directory cluster is unchanged, but next_free_cluster
\* has advanced by ceil(S / bytesPerCluster), those clusters' FAT entries
\* hold a chain and the payload is in the data area.
C14_FullAfterAllocation ==
    [][DirectoryFullStep =>
        LET data == Last(files').data
            n == CeilDiv(data.size, bytes_per_cluster)
            first == next_free_cluster
        IN  /\ RootDir(disk_image') = RootDir(disk_image)
            /\ next_free_cluster' = first + n
            /\ Last(files').first_cluster = first
            /\ \A c \in 0..(Len(fat_table) - 1) :
                  fat_table'[c + 1] =
                      (IF c < first \/ c >= first + n THEN fat_table[c + 1]
                       ELSE IF c = first + n - 1 THEN EOC ELSE c + 1)
            /\ \A k \in 0..(n - 1) :
                  Slice(disk_image', ClusterOffset(first + k),
                        ClusterOffset(first + k) + bytes_per_cluster)
                    = DataSlice(data, k * bytes_per_cluster, (k + 1) * bytes_per_cluster)
                        \o Zeros((k + 1) * bytes_per_cluster
                                 - Min((k + 1) * bytes_per_cluster, data.size))
            /\ disk_image' # disk_image]_vars

\* C14 happens: the last insertion was refused for a payload of S > 0 bytes
\* and the counter stands past the clusters of that payload
C14_Witness ==
    /\ IsBD /\ pc = "aborted" /\ raised = "DirectoryFull"
    /\ Last(files).outcome = "DirectoryFull"
    /\ Last(files).data.size > 0
    /\ next_free_cluster
          = Last(files).first_cluster
              + CeilDiv(Last(files).data.size, bytes_per_cluster)
====
